---- MODULE Spec2Model ----
(***************************************************************************)
(* Model of plugins/krci-devops/scripts/generate-pipeline.py: the pipeline *)
(* name generator and validator of KubeRocketCI.                           *)
(*                                                                         *)
(* A Python str is modelled as a sequence of one-character strings, so     *)
(* that lower(), str.format() and re.match() are computed character by     *)
(* character.  sys.argv[1:] is the variable argv; len(sys.argv) is         *)
(* Len(argv) + 1.                                                          *)
(***************************************************************************)
EXTENDS Integers, Sequences, FiniteSets

VARIABLES argv, pc, calls, ret, exit_code, stdout, stderr

vars == <<argv, pc, calls, ret, exit_code, stdout, stderr>>

(***************************************************************************)
(* Bounds of the model.                                                    *)
(***************************************************************************)
MaxLen == 3

MaxTokLen == 2

MaxPrefixLen == 5

MaxArgs == 4

(***************************************************************************)
(* Characters.                                                             *)
(***************************************************************************)
LowerSeq == <<"a", "b", "c", "d", "e", "f", "g", "h", "i", "j", "k", "l", "m", "n", "o", "p", "q", "r", "s", "t", "u", "v", "w", "x", "y", "z">>

UpperSeq == <<"A", "B", "C", "D", "E", "F", "G", "H", "I", "J", "K", "L", "M", "N", "O", "P", "Q", "R", "S", "T", "U", "V", "W", "X", "Y", "Z">>

LowerLetters == {LowerSeq[i] : i \in 1..Len(LowerSeq)}

UpperLetters == {UpperSeq[i] : i \in 1..Len(UpperSeq)}

Digits == {"0", "1", "2", "3", "4", "5", "6", "7", "8", "9"}

\* Variant: segments that admit the hyphen, as validate_component does.
SegmentClass_hyphen == LowerLetters \cup Digits \cup {"-"}

\* The character class [a-z0-9] of the segments of BUILD_REGEX and REVIEW_REGEX.
SegmentClass == LowerLetters \cup Digits

\* The character class [a-z0-9-] of validate_component.
ComponentClass == LowerLetters \cup Digits \cup {"-"}

(***************************************************************************)
(* str.lower(), on the ASCII range.                                        *)
(***************************************************************************)
CharLower(c) ==
    IF c \in UpperLetters
    THEN LowerSeq[CHOOSE i \in 1..Len(UpperSeq) : UpperSeq[i] = c]
    ELSE c

lower(s) == [i \in 1..Len(s) |-> CharLower(s[i])]

(***************************************************************************)
(* re: a compiled pattern is the sequence of its items between ^ and $.    *)
(* An item is either a one-or-more repetition of a character class or an   *)
(* alternation of literal strings (a literal is an alternation of one).    *)
(***************************************************************************)
Plus(class) == [op |-> "plus", class |-> class, alts |-> {}]

Alt(alts) == [op |-> "alt", class |-> {}, alts |-> alts]

Lit(str) == Alt({str})

\* The positions of s at which item can end when it starts at a position of P.
StepItem(item, s, P) ==
    IF item.op = "plus"
    THEN {j \in 1..Len(s) :
            \E i \in P : i < j /\ \A m \in (i + 1)..j : s[m] \in item.class}
    ELSE {j \in 0..Len(s) :
            \E i \in P : \E a \in item.alts :
                j = i + Len(a) /\ SubSeq(s, i + 1, j) = a}

RECURSIVE Reach(_, _, _)
\* The positions of s reached after the first k items, starting from ^.
Reach(items, s, k) ==
    IF k = 0 THEN {0} ELSE StepItem(items[k], s, Reach(items, s, k - 1))

\* $ without re.MULTILINE: the end of the string, or just before a newline
\* that is the last character of the string.
EndAnchor(s, P) ==
    \E i \in P : i = Len(s) \/ (i = Len(s) - 1 /\ s[Len(s)] = "\n")

re_match(items, s) == EndAnchor(s, Reach(items, s, Len(items)))

(***************************************************************************)
(* Module constants.                                                       *)
(***************************************************************************)
SUPPORTED_VCS == << <<"g", "i", "t", "h", "u", "b">>, <<"g", "i", "t", "l", "a", "b">>, <<"b", "i", "t", "b", "u", "c", "k", "e", "t">> >>

\* A format string is the sequence of its parts: a replacement field or
\* literal text.
Field(name) == [field |-> name, text |-> <<>>]

Text(str) == [field |-> "", text |-> str]

\* Variant: no separator between the vcs and language fields.
BUILD_PATTERN_nosep == <<Field("vcs"), Field("language"), Text(<<"-">>), Field("framework"), Text(<<"-", "a", "p", "p", "-", "b", "u", "i", "l", "d", "-", "d", "e", "f", "a", "u", "l", "t">>)>>

BUILD_PATTERN == <<Field("vcs"), Text(<<"-">>), Field("language"), Text(<<"-">>), Field("framework"), Text(<<"-", "a", "p", "p", "-", "b", "u", "i", "l", "d", "-", "d", "e", "f", "a", "u", "l", "t">>)>>

REVIEW_PATTERN == <<Field("vcs"), Text(<<"-">>), Field("language"), Text(<<"-">>), Field("framework"), Text(<<"-", "a", "p", "p", "-", "r", "e", "v", "i", "e", "w">>)>>

BUILD_REGEX == <<Plus(SegmentClass), Lit(<<"-">>), Plus(SegmentClass), Lit(<<"-">>), Plus(SegmentClass), Lit(<<"-", "a", "p", "p", "-", "b", "u", "i", "l", "d", "-">>), Alt({<<"d", "e", "f", "a", "u", "l", "t">>, <<"e", "d", "p">>})>>

REVIEW_REGEX == <<Plus(SegmentClass), Lit(<<"-">>), Plus(SegmentClass), Lit(<<"-">>), Plus(SegmentClass), Lit(<<"-", "a", "p", "p", "-", "r", "e", "v", "i", "e", "w">>)>>

\* The pattern ^[a-z0-9-]+$ of validate_component.
COMPONENT_REGEX == <<Plus(ComponentClass)>>

LabelVCS == <<"V", "C", "S">>

LabelLanguage == <<"l", "a", "n", "g", "u", "a", "g", "e">>

LabelFramework == <<"f", "r", "a", "m", "e", "w", "o", "r", "k">>

ValidateFlag == <<"-", "-", "v", "a", "l", "i", "d", "a", "t", "e">>

(***************************************************************************)
(* Output and call records.                                                *)
(***************************************************************************)
\* One print(): what is printed (kind) and the values interpolated into it.
Line(kind, type, a, b) == [kind |-> kind, type |-> type, a |-> a, b |-> b]

\* One function invocation: the function, its arguments, what it returned.
Call(fn, args, result) == [fn |-> fn, args |-> args, result |-> result]

\* Return values: a bool, a (bool, Optional[str]) pair, a (str, str) pair.
RetNone == [ok |-> FALSE, type |-> "unset", build |-> <<>>, review |-> <<>>]

RetBool(b) == [ok |-> b, type |-> "bool", build |-> <<>>, review |-> <<>>]

RetVerdict(b, type) == [ok |-> b, type |-> type, build |-> <<>>, review |-> <<>>]

RetNames(b, r) == [ok |-> TRUE, type |-> "names", build |-> b, review |-> r]

(***************************************************************************)
(* The functions.  Each yields its return value, the lines it prints to    *)
(* sys.stderr and the calls made (itself first, then those it makes).      *)
(***************************************************************************)
Returns(fn, args, result, err, inner) ==
    [ret |-> result, err |-> err, calls |-> <<Call(fn, args, result)>> \o inner]

validate_component(component, component_name) ==
    IF component = <<>>
    THEN Returns("validate_component", <<component, component_name>>, RetBool(FALSE),
                 <<Line("error_empty", "", component_name, <<>>)>>, <<>>)
    ELSE IF ~re_match(COMPONENT_REGEX, component)
    THEN Returns("validate_component", <<component, component_name>>, RetBool(FALSE),
                 <<Line("error_chars", "", component_name, component)>>, <<>>)
    ELSE Returns("validate_component", <<component, component_name>>, RetBool(TRUE),
                 <<>>, <<>>)

InList(x, list) == \E i \in 1..Len(list) : list[i] = x

\* Variant: an unknown provider is rejected instead of warned about.
validate_vcs_strict(vcs) ==
    LET warning == IF ~InList(vcs, SUPPORTED_VCS)
                   THEN <<Line("warning_vcs", "", vcs, <<>>)>> ELSE <<>>
        r == validate_component(vcs, LabelVCS)
    IN  Returns("validate_vcs", <<vcs>>,
                RetBool(r.ret.ok /\ InList(vcs, SUPPORTED_VCS)),
                warning \o r.err, r.calls)

validate_vcs(vcs) ==
    LET warning == IF ~InList(vcs, SUPPORTED_VCS)
                   THEN <<Line("warning_vcs", "", vcs, <<>>)>> ELSE <<>>
        r == validate_component(vcs, LabelVCS)
    IN  Returns("validate_vcs", <<vcs>>, r.ret, warning \o r.err, r.calls)

validate_pipeline_name(name) ==
    IF re_match(BUILD_REGEX, name)
    THEN Returns("validate_pipeline_name", <<name>>, RetVerdict(TRUE, "build"),
                 <<>>, <<>>)
    ELSE IF re_match(REVIEW_REGEX, name)
    THEN Returns("validate_pipeline_name", <<name>>, RetVerdict(TRUE, "review"),
                 <<>>, <<>>)
    ELSE Returns("validate_pipeline_name", <<name>>, RetVerdict(FALSE, "none"),
                 <<>>, <<>>)

RECURSIVE format(_, _)
\* str.format with keyword arguments kw: the parts of the pattern in order,
\* each replacement field replaced by its argument.
format(pattern, kw) ==
    IF pattern = <<>> THEN <<>>
    ELSE (IF Head(pattern).field = "" THEN Head(pattern).text
          ELSE kw[Head(pattern).field]) \o format(Tail(pattern), kw)

\* Variant: the framework is not lowercased.
generate_pipeline_names_nolower(vcs, language, framework) ==
    LET kw == [vcs |-> lower(vcs), language |-> lower(language),
               framework |-> framework]
    IN  Returns("generate_pipeline_names", <<vcs, language, framework>>,
                RetNames(format(BUILD_PATTERN, kw), format(REVIEW_PATTERN, kw)),
                <<>>, <<>>)

generate_pipeline_names(vcs, language, framework) ==
    LET kw == [vcs |-> lower(vcs), language |-> lower(language),
               framework |-> lower(framework)]
    IN  Returns("generate_pipeline_names", <<vcs, language, framework>>,
                RetNames(format(BUILD_PATTERN, kw), format(REVIEW_PATTERN, kw)),
                <<>>, <<>>)

(***************************************************************************)
(* Input sets.                                                             *)
(***************************************************************************)
RECURSIVE Strings(_, _)
\* The strings over alphabet of length at most n.
Strings(alphabet, n) ==
    IF n = 0 THEN {<<>>}
    ELSE LET shorter == Strings(alphabet, n - 1)
         IN  shorter \cup {Append(s, c) : s \in shorter, c \in alphabet}

ComponentAlphabet == {"a", "z", "0", "9", "-", "A", "!", " ", "_", "\n"}

NamedComponents == {<<"g", "i", "t", "h", "u", "b">>, <<"g", "i", "t", "l", "a", "b">>, <<"b", "i", "t", "b", "u", "c", "k", "e", "t">>, <<"g", "i", "t", "e", "a">>, <<"G", "i", "t", "H", "u", "b">>, <<"J", "a", "v", "a", "!">>, <<"g", "i", "t", "h", "u", "b", "\n">>}

ComponentInputs == Strings(ComponentAlphabet, MaxLen) \cup NamedComponents

Labels == {LabelVCS, LabelLanguage, LabelFramework}

(***************************************************************************)
(* Calls of validate_component and validate_vcs on one string.             *)
(***************************************************************************)
InitComponent ==
    /\ argv \in {<<s>> : s \in ComponentInputs}
    /\ pc = "start"
    /\ calls = <<>>
    /\ ret = RetNone
    /\ exit_code = -1
    /\ stdout = <<>>
    /\ stderr = <<>>

CallValidateComponent ==
    /\ pc = "start"
    /\ Len(argv) = 1
    /\ \E label \in Labels :
        LET r == validate_component(argv[1], label)
        IN  /\ ret' = r.ret
            /\ stderr' = stderr \o r.err
            /\ calls' = calls \o r.calls
    /\ pc' = "returned"
    /\ UNCHANGED <<argv, exit_code, stdout>>

CallValidateVcs ==
    /\ pc = "start"
    /\ Len(argv) = 1
    /\ LET r == validate_vcs(argv[1])
       IN  /\ ret' = r.ret
           /\ stderr' = stderr \o r.err
           /\ calls' = calls \o r.calls
    /\ pc' = "returned"
    /\ UNCHANGED <<argv, exit_code, stdout>>

NextComponent == CallValidateComponent \/ CallValidateVcs

SpecComponent == InitComponent /\ [][NextComponent]_vars

(***************************************************************************)
(* Calls of validate_pipeline_name on one string.                          *)
(***************************************************************************)
NameAlphabet == {"a", "-", "A"}

Heads == {<<>>, <<"\n">>, <<" ">>}

Suffixes == {<<"-", "a", "p", "p", "-", "b", "u", "i", "l", "d", "-", "d", "e", "f", "a", "u", "l", "t">>, <<"-", "a", "p", "p", "-", "b", "u", "i", "l", "d", "-", "e", "d", "p">>, <<"-", "a", "p", "p", "-", "r", "e", "v", "i", "e", "w">>, <<"-", "a", "p", "p", "-", "b", "u", "i", "l", "d", "-", "c", "u", "s", "t", "o", "m">>, <<"-", "a", "p", "p", "-", "b", "u", "i", "l", "d", "-">>, <<"-", "A", "P", "P", "-", "r", "e", "v", "i", "e", "w">>, <<"-", "a", "p", "p", "-", "b", "u", "i", "l", "d", "-", "d", "e", "f", "a", "u", "l", "t", "-", "a", "p", "p", "-", "r", "e", "v", "i", "e", "w">>, <<>>}

Tails == {<<>>, <<"\n">>, <<"a">>, <<" ">>, <<"\n", "\n">>}

NameInputs ==
    {h \o p \o s \o t : h \in Heads, p \in Strings(NameAlphabet, MaxPrefixLen),
                        s \in Suffixes, t \in Tails}

InitPipelineName ==
    /\ argv \in {<<name>> : name \in NameInputs}
    /\ pc = "start"
    /\ calls = <<>>
    /\ ret = RetNone
    /\ exit_code = -1
    /\ stdout = <<>>
    /\ stderr = <<>>

CallValidatePipelineName ==
    /\ pc = "start"
    /\ Len(argv) = 1
    /\ LET r == validate_pipeline_name(argv[1])
       IN  /\ ret' = r.ret
           /\ calls' = calls \o r.calls
    /\ pc' = "returned"
    /\ UNCHANGED <<argv, exit_code, stdout, stderr>>

NextPipelineName == CallValidatePipelineName

SpecPipelineName == InitPipelineName /\ [][NextPipelineName]_vars

(***************************************************************************)
(* Generation from three strings, and validation of the generated names.   *)
(***************************************************************************)
TokenAlphabet == {"a", "-", "\n"}

MixedCaseTokens == {<<"A">>, <<"a", "A">>, <<"Z", "-", "9">>, <<"G", "i", "t", "H", "u", "b">>}

Tokens == Strings(TokenAlphabet, MaxTokLen) \cup MixedCaseTokens

InitNames ==
    /\ argv \in {<<v, l, f>> : v \in Tokens, l \in Tokens, f \in Tokens}
    /\ pc = "start"
    /\ calls = <<>>
    /\ ret = RetNone
    /\ exit_code = -1
    /\ stdout = <<>>
    /\ stderr = <<>>

CallGeneratePipelineNames ==
    /\ pc = "start"
    /\ Len(argv) = 3
    /\ LET r == generate_pipeline_names(argv[1], argv[2], argv[3])
       IN  /\ ret' = r.ret
           /\ calls' = calls \o r.calls
    /\ pc' = "generated"
    /\ UNCHANGED <<argv, exit_code, stdout, stderr>>

\* validate_pipeline_name applied to one of the two names just generated.
CallValidateGenerated ==
    /\ pc = "generated"
    /\ \E name \in {ret.build, ret.review} :
        LET r == validate_pipeline_name(name)
        IN  /\ ret' = r.ret
            /\ calls' = calls \o r.calls
    /\ pc' = "revalidated"
    /\ UNCHANGED <<argv, exit_code, stdout, stderr>>

NextNames == CallGeneratePipelineNames \/ CallValidateGenerated

SpecNames == InitNames /\ [][NextNames]_vars

(***************************************************************************)
(* main(): one run of the script on an argument list.                      *)
(***************************************************************************)
\* Variant: validation mode exits 0 on an invalid name too.
main_validate_exit0(pipeline_name) ==
    LET v == validate_pipeline_name(pipeline_name)
    IN  IF v.ret.ok
        THEN [exit_code |-> 0,
              out |-> <<Line("valid", v.ret.type, pipeline_name, <<>>)>>,
              err |-> <<>>, calls |-> v.calls]
        ELSE [exit_code |-> 0, out |-> <<>>,
              err |-> <<Line("invalid", "", pipeline_name, <<>>),
                        Line("expected_formats", "", <<>>, <<>>),
                        Line("expected_build", "", <<>>, <<>>),
                        Line("expected_review", "", <<>>, <<>>)>>,
              calls |-> v.calls]

\* Lines 135-152: the body of validation mode.
main_validate(pipeline_name) ==
    LET v == validate_pipeline_name(pipeline_name)
    IN  IF v.ret.ok
        THEN [exit_code |-> 0,
              out |-> <<Line("valid", v.ret.type, pipeline_name, <<>>)>>,
              err |-> <<>>, calls |-> v.calls]
        ELSE [exit_code |-> 1, out |-> <<>>,
              err |-> <<Line("invalid", "", pipeline_name, <<>>),
                        Line("expected_formats", "", <<>>, <<>>),
                        Line("expected_build", "", <<>>, <<>>),
                        Line("expected_review", "", <<>>, <<>>)>>,
              calls |-> v.calls]

\* Lines 171-187: generation and the report on sys.stdout.
main_report(vcs, language, framework) ==
    LET g == generate_pipeline_names(vcs, language, framework)
    IN  [exit_code |-> 0,
         out |-> <<Line("generated_header", "", <<>>, <<>>),
                   Line("build_name", "", g.ret.build, <<>>),
                   Line("review_name", "", g.ret.review, <<>>),
                   Line("blank", "", <<>>, <<>>),
                   Line("onboarding_header", "", <<>>, <<>>),
                   Line("onboarding_build", "", g.ret.build, vcs),
                   Line("onboarding_review", "", g.ret.review, vcs)>>,
         err |-> <<>>, calls |-> g.calls]

\* Lines 159-187: the body of generation mode.
main_generate(vcs, language, framework) ==
    LET cv == validate_vcs(vcs)
        cl == validate_component(language, LabelLanguage)
        cf == validate_component(framework, LabelFramework)
        rep == main_report(vcs, language, framework)
    IN  IF ~cv.ret.ok
        THEN [exit_code |-> 1, out |-> <<>>, err |-> cv.err, calls |-> cv.calls]
        ELSE IF ~cl.ret.ok
        THEN [exit_code |-> 1, out |-> <<>>, err |-> cv.err \o cl.err,
              calls |-> cv.calls \o cl.calls]
        ELSE IF ~cf.ret.ok
        THEN [exit_code |-> 1, out |-> <<>>, err |-> cv.err \o cl.err \o cf.err,
              calls |-> cv.calls \o cl.calls \o cf.calls]
        ELSE [exit_code |-> rep.exit_code, out |-> rep.out,
              err |-> cv.err \o cl.err \o cf.err,
              calls |-> cv.calls \o cl.calls \o cf.calls \o rep.calls]

\* Variant: surplus arguments are ignored (n < k in place of n != k).
usage_lenient(args) ==
    LET n == Len(args) + 1
    IN  IF n < 2 THEN "doc"
        ELSE IF args[1] = ValidateFlag
        THEN (IF n < 3 THEN "usage_validate" ELSE "none")
        ELSE (IF n < 4 THEN "usage_generate" ELSE "none")

\* Lines 125-133 and 155-157: the three checks of the argument count, on
\* n = len(sys.argv); the usage text printed, or "none" to go on.
usage(args) ==
    LET n == Len(args) + 1
    IN  IF n < 2 THEN "doc"
        ELSE IF args[1] = ValidateFlag
        THEN (IF n # 3 THEN "usage_validate" ELSE "none")
        ELSE (IF n # 4 THEN "usage_generate" ELSE "none")

CliTokens == {ValidateFlag, <<>>, <<"a">>, <<"a", "-", "b">>, <<"A">>, <<"a", "\n">>, <<"g", "i", "t", "l", "a", "b">>, <<"a", "-", "a", "-", "a", "-", "a", "p", "p", "-", "b", "u", "i", "l", "d", "-", "e", "d", "p">>, <<"a", "-", "a", "-", "a", "-", "a", "p", "p", "-", "r", "e", "v", "i", "e", "w">>}

RECURSIVE ArgLists(_)
\* The argument lists of at most n arguments.
ArgLists(n) ==
    IF n = 0 THEN {<<>>}
    ELSE LET shorter == ArgLists(n - 1)
         IN  shorter \cup {Append(l, t) : l \in shorter, t \in CliTokens}

Init ==
    /\ argv \in ArgLists(MaxArgs)
    /\ pc = "start"
    /\ calls = <<>>
    /\ ret = RetNone
    /\ exit_code = -1
    /\ stdout = <<>>
    /\ stderr = <<>>

\* sys.exit(code), or the return of main() with code 0.
Exit(r) ==
    /\ pc' = "exited"
    /\ exit_code' = r.exit_code
    /\ stdout' = stdout \o r.out
    /\ stderr' = stderr \o r.err
    /\ calls' = calls \o r.calls
    /\ UNCHANGED <<argv, ret>>

MainUsage ==
    /\ pc = "start"
    /\ usage(argv) # "none"
    /\ Exit([exit_code |-> 1, out |-> <<Line(usage(argv), "", <<>>, <<>>)>>,
             err |-> <<>>, calls |-> <<>>])

MainValidate ==
    /\ pc = "start"
    /\ usage(argv) = "none"
    /\ argv[1] = ValidateFlag
    /\ Exit(main_validate(argv[2]))

MainGenerate ==
    /\ pc = "start"
    /\ usage(argv) = "none"
    /\ argv[1] # ValidateFlag
    /\ Exit(main_generate(argv[1], argv[2], argv[3]))

Next == MainUsage \/ MainValidate \/ MainGenerate

Spec == Init /\ [][Next]_vars

(***************************************************************************)
(* Properties.  The predicates below restate the documented naming rules   *)
(* independently of the functions above.                                   *)
(***************************************************************************)
\* s consists solely of lowercase letters, digits and hyphens.
OnlyComponentChars(s) ==
    \A i \in 1..Len(s) : s[i] \in LowerLetters \cup Digits \cup {"-"}

StructurallyValid(s) == s # <<>> /\ OnlyComponentChars(s)

HyphenFree(s) == \A i \in 1..Len(s) : s[i] # "-"

\* s[a..b] is a non-empty run of lowercase letters and digits.
Segment(s, a, b) ==
    a <= b /\ \A m \in a..b : s[m] \in LowerLetters \cup Digits

\* The whole of s is seg-seg-seg followed by suffix.
HasForm(s, suffix) ==
    LET n == Len(s) - Len(suffix)
    IN  /\ n > 0
        /\ SubSeq(s, n + 1, Len(s)) = suffix
        /\ \E i \in 1..n : \E j \in 1..n :
            /\ i < j
            /\ s[i] = "-"
            /\ s[j] = "-"
            /\ Segment(s, 1, i - 1)
            /\ Segment(s, i + 1, j - 1)
            /\ Segment(s, j + 1, n)

BuildForm(s) ==
    \/ HasForm(s, <<"-", "a", "p", "p", "-", "b", "u", "i", "l", "d", "-", "d", "e", "f", "a", "u", "l", "t">>)
    \/ HasForm(s, <<"-", "a", "p", "p", "-", "b", "u", "i", "l", "d", "-", "e", "d", "p">>)

ReviewForm(s) ==
    HasForm(s, <<"-", "a", "p", "p", "-", "r", "e", "v", "i", "e", "w">>)

KnownVcs == {<<"g", "i", "t", "h", "u", "b">>, <<"g", "i", "t", "l", "a", "b">>, <<"b", "i", "t", "b", "u", "c", "k", "e", "t">>}

HasKind(lines, kind) == \E i \in 1..Len(lines) : lines[i].kind = kind

Invoked(fn) == \E i \in 1..Len(calls) : calls[i].fn = fn

\* The three tokens of t are accepted by validate_component.
Accepted(t) ==
    /\ validate_component(t[1], LabelVCS).ret.ok
    /\ validate_component(t[2], LabelLanguage).ret.ok
    /\ validate_component(t[3], LabelFramework).ret.ok

AcceptedHyphenFree(t) == Accepted(t) /\ \A i \in 1..3 : HyphenFree(t[i])

Returned(fn) == pc = "returned" /\ calls # <<>> /\ calls[1].fn = fn

\* C1: validate_component(s, label) returns true iff s is non-empty and
\* consists solely of characters of [a-z0-9-], whatever the label; a string
\* with any other character, a trailing newline included, is rejected.
C1_ValidateComponentIffClass ==
    Returned("validate_component") =>
        (ret.ok <=> StructurallyValid(argv[1]))

\* C2: generate_pipeline_names returns exactly
\* lower(vcs)-lower(language)-lower(framework)-app-build-default and
\* lower(vcs)-lower(language)-lower(framework)-app-review, for any three
\* strings; the build suffix is always "default".
C2_GeneratedNames ==
    pc = "generated" =>
        LET prefix == lower(argv[1]) \o <<"-">> \o lower(argv[2]) \o <<"-">>
                        \o lower(argv[3])
        IN  /\ ret.type = "names"
            /\ ret.build = prefix \o <<"-", "a", "p", "p", "-", "b", "u", "i", "l", "d", "-", "d", "e", "f", "a", "u", "l", "t">>
            /\ ret.review = prefix \o <<"-", "a", "p", "p", "-", "r", "e", "v", "i", "e", "w">>
            /\ \A i \in 1..Len(prefix) : prefix[i] \notin UpperLetters

C2_Witness ==
    /\ pc = "generated"
    /\ \A i \in 1..3 : lower(argv[i]) # argv[i]
    /\ argv[1] # argv[2]

\* C3: validate_pipeline_name(name) returns (true, "build") iff the whole of
\* name is seg-seg-seg-app-build-(default|edp), (true, "review") iff the whole
\* of name is seg-seg-seg-app-review, and (false, none) otherwise; no extra
\* leading or trailing character is tolerated.
C3_ValidatePipelineNameAnchored ==
    Returned("validate_pipeline_name") =>
        /\ ret = RetVerdict(TRUE, "build") <=> BuildForm(argv[1])
        /\ ret = RetVerdict(TRUE, "review") <=> ReviewForm(argv[1])
        /\ ~BuildForm(argv[1]) /\ ~ReviewForm(argv[1])
            => ret = RetVerdict(FALSE, "none")

\* C4: for every triple of hyphen-free tokens accepted by validate_component,
\* the generated build name validates as (true, "build") and the generated
\* review name as (true, "review").
C4_RoundTrip ==
    pc = "revalidated" /\ AcceptedHyphenFree(argv) =>
        /\ calls[2].args[1] = calls[1].result.build
            => ret = RetVerdict(TRUE, "build")
        /\ calls[2].args[1] = calls[1].result.review
            => ret = RetVerdict(TRUE, "review")

\* C5: for every triple of tokens accepted by validate_component whose
\* language or framework token contains a hyphen, the generated build name
\* and the generated review name both validate as (false, none).
C5_HyphenAsymmetry ==
    /\ pc = "revalidated"
    /\ Accepted(argv)
    /\ ~HyphenFree(argv[2]) \/ ~HyphenFree(argv[3])
    => ret = RetVerdict(FALSE, "none")

C5_Witness ==
    /\ pc = "revalidated"
    /\ Accepted(argv)
    /\ HyphenFree(argv[1])
    /\ ~HyphenFree(argv[2])
    /\ HyphenFree(argv[3])
    /\ calls[2].args[1] = calls[1].result.review
    /\ ret = RetVerdict(FALSE, "none")

\* C6: validate_vcs(vcs) returns exactly validate_component(vcs, "VCS"); a
\* warning is emitted iff vcs is not one of github, gitlab, bitbucket, and
\* never changes the returned boolean.
C6_ValidateVcsWarnsOnly ==
    Returned("validate_vcs") =>
        /\ ret = validate_component(argv[1], LabelVCS).ret
        /\ HasKind(stderr, "warning_vcs") <=> argv[1] \notin KnownVcs
        /\ argv[1] \in KnownVcs => ret.ok /\ stderr = <<>>
        /\ StructurallyValid(argv[1]) => ret.ok

C6_Witness ==
    /\ Returned("validate_vcs")
    /\ argv[1] = <<"g", "i", "t", "e", "a">>
    /\ ret.ok
    /\ HasKind(stderr, "warning_vcs")

GenerationMode == Len(argv) = 3 /\ argv[1] # ValidateFlag

NamesPrinted == HasKind(stdout, "build_name") /\ HasKind(stdout, "review_name")

\* C7: in generation mode the process exits 0 and prints both names iff all
\* three arguments pass validation; if any argument is empty or contains a
\* character outside [a-z0-9-], it exits 1 after a diagnostic on stderr,
\* generate_pipeline_names is never invoked and nothing is written to stdout.
C7_GenerationMode ==
    pc = "exited" /\ GenerationMode =>
        /\ exit_code \in {0, 1}
        /\ (exit_code = 0 /\ NamesPrinted) <=> Accepted(argv)
        /\ (\E i \in 1..3 : ~StructurallyValid(argv[i])) =>
            /\ exit_code = 1
            /\ HasKind(stderr, "error_empty") \/ HasKind(stderr, "error_chars")
            /\ ~Invoked("generate_pipeline_names")
            /\ stdout = <<>>

ValidationMode == Len(argv) = 2 /\ argv[1] = ValidateFlag

\* C8: in validation mode the exit code is 0 iff validate_pipeline_name
\* reports the name valid and 1 otherwise; the verdict printed for a valid
\* name states the kind validate_pipeline_name returned.
C8_ValidationMode ==
    pc = "exited" /\ ValidationMode =>
        LET v == validate_pipeline_name(argv[2]).ret
        IN  /\ exit_code = (IF v.ok THEN 0 ELSE 1)
            /\ calls = <<Call("validate_pipeline_name", <<argv[2]>>, v)>>
            /\ v.ok => /\ stdout = <<Line("valid", v.type, argv[2], <<>>)>>
                       /\ v.type \in {"build", "review"}
                       /\ stderr = <<>>
            /\ ~v.ok => /\ stdout = <<>>
                        /\ stderr # <<>>
                        /\ stderr[1] = Line("invalid", "", argv[2], <<>>)

C8_Witness ==
    /\ pc = "exited"
    /\ ValidationMode
    /\ exit_code = 1
    /\ HasKind(stderr, "invalid")
    /\ argv[2] # <<>>

UsageError ==
    IF argv = <<>> THEN TRUE
    ELSE IF argv[1] = ValidateFlag THEN Len(argv) # 2
    ELSE Len(argv) # 3

\* C9: an argument list that is neither --validate with exactly one name nor
\* exactly three positional arguments prints a usage message and exits 1;
\* no validator runs, nothing is written to stderr and no name is generated.
C9_UsageErrors ==
    pc = "exited" /\ UsageError =>
        /\ exit_code = 1
        /\ Len(stdout) = 1
        /\ stdout[1].kind \in {"doc", "usage_validate", "usage_generate"}
        /\ stderr = <<>>
        /\ calls = <<>>

C9_Witness ==
    /\ pc = "exited"
    /\ Len(argv) = 4
    /\ argv[1] # ValidateFlag
    /\ \A i \in 1..4 : StructurallyValid(argv[i])
    /\ exit_code = 1
    /\ stdout = <<Line("usage_generate", "", <<>>, <<>>)>>

AcceptedHyphenFreeTriples ==
    {t \in {<<v, l, f>> : v \in Tokens, l \in Tokens, f \in Tokens} :
        AcceptedHyphenFree(t)}

\* C10: two triples of hyphen-free tokens accepted by validate_component
\* yield the same build name, or the same review name, only if they are the
\* same triple.
C10_GenerationInjective ==
    pc = "generated" /\ AcceptedHyphenFree(argv) =>
        \A t \in AcceptedHyphenFreeTriples :
            LET g == generate_pipeline_names(t[1], t[2], t[3]).ret
            IN  g.build = ret.build \/ g.review = ret.review => t = argv

C10_Witness ==
    /\ pc = "generated"
    /\ AcceptedHyphenFree(argv)
    /\ Len(argv[1]) = 1
    /\ Len(argv[2]) = 2
    /\ <<argv[2], argv[1], argv[3]>> \in AcceptedHyphenFreeTriples

====
